---- MODULE Spec2Model ----
(***************************************************************************)
(* Model of app.py: five Bing query tool functions that drive a hosted     *)
(* agent service (create agent, create thread, post message, run, list     *)
(* messages, delete agent, read the answer), called by four assistant      *)
(* agents that speak in a round-robin group chat which stops on the phrase *)
(* 'Decision Made' or on the 15th message.                                 *)
(*                                                                         *)
(* The transcript holds the chat messages: the task, then one response per *)
(* turn.  A message is abstracted to its speaker and to whether its text   *)
(* contains the phrase.  The hosted service and the chat model are opaque: *)
(* every remote call may succeed, raise KeyError or raise another          *)
(* exception; every model reply may be text or a list of tool calls.       *)
(***************************************************************************)
EXTENDS Integers, Sequences, FiniteSets

VARIABLES phase, transcript, next_speaker_index, active, turn, outbox,
          inv, agents, threads, invocations

vars == <<phase, transcript, next_speaker_index, active, turn, outbox,
          inv, agents, threads, invocations>>

(* ------------------------------ bounds -------------------------------- *)
\* most tool invocations in one run of the team
MaxInvocations == 2
\* most tool calls in one model reply
MaxCalls == 2

(* ------------------------- program constants -------------------------- *)
MaxMessages == 15

ErrMissing == "Error: Unable to fetch data due to missing information."
ErrGeneric == "Error: Unable to fetch data due to an unexpected issue."
\* the invocation ended by an exception leaving the tool function
Raised == "raised"
\* the invocation returned messages["data"][0]["content"][0]["text"]["value"]
Answer == "answer"

Participants ==
    <<"stock_trends_agent", "news_agent", "sentiment_agent", "decision_agent">>

TaskSource == "user"

Tools == {"stock_price_trends_tool", "news_analysis_tool", "market_sentiment_tool",
          "analyst_reports_tool", "expert_opinions_tool"}

\* the tools=[...] argument of each AssistantAgent
ToolsOf(a) ==
    CASE a = "stock_trends_agent" -> {"stock_price_trends_tool"}
      [] a = "news_agent"         -> {"news_analysis_tool"}
      [] a = "sentiment_agent"    -> {"market_sentiment_tool", "analyst_reports_tool",
                                      "expert_opinions_tool"}
      [] OTHER                    -> {}

\* values of the stock_name argument a model may pass
Stocks == {"tata motors", "infosys"}

Outcomes == {"ok", "KeyError", "Exception"}

StepNames == {"create_agent", "create_thread", "create_message",
              "create_and_process_run", "list_messages", "delete_agent", "extract"}

NoInv == [tool |-> "none", stock |-> "none", pc |-> "none", agent |-> 0, thread |-> 0,
          steps |-> <<>>, result |-> "none", failed_at |-> "none", exc |-> "none",
          phrase |-> FALSE]

IdleTurn == [pc |-> "idle", pending |-> <<>>, phrase |-> FALSE]

(* --------------------------- tool functions --------------------------- *)
\* the statement that follows statement s of a tool function when s succeeds
StepAfterExtractFirst(s) ==
    CASE s = "create_agent"           -> "create_thread"
      [] s = "create_thread"          -> "create_message"
      [] s = "create_message"         -> "create_and_process_run"
      [] s = "create_and_process_run" -> "list_messages"
      [] s = "list_messages"          -> "extract"
      [] s = "extract"                -> "delete_agent"
      [] s = "delete_agent"           -> "done"

StepAfter(s) ==
    CASE s = "create_agent"           -> "create_thread"
      [] s = "create_thread"          -> "create_message"
      [] s = "create_message"         -> "create_and_process_run"
      [] s = "create_and_process_run" -> "list_messages"
      [] s = "list_messages"          -> "delete_agent"
      [] s = "delete_agent"           -> "extract"
      [] s = "extract"                -> "done"

\* what an exception of kind exc raised by statement s does to the invocation:
\* only create_and_process_run sits in the try block
OnFailureRetry(s, exc) ==
    IF s = "create_and_process_run"
    THEN [pc |-> "create_and_process_run", result |-> "none"]
    ELSE [pc |-> "done", result |-> Raised]

OnFailure(s, exc) ==
    IF s = "create_and_process_run"
    THEN [pc |-> "done", result |-> IF exc = "KeyError" THEN ErrMissing ELSE ErrGeneric]
    ELSE [pc |-> "done", result |-> Raised]

\* the agent function calls the tool function, which starts at create_agent
Begin(t) ==
    /\ turn.pc = "tools"
    /\ turn.pending # <<>>
    /\ inv.pc \in {"none", "collected"}
    /\ Head(turn.pending).tool = t
    /\ inv' = [NoInv EXCEPT !.tool = t, !.stock = Head(turn.pending).stock,
                            !.pc = "create_agent"]
    /\ turn' = [turn EXCEPT !.pending = Tail(turn.pending)]
    /\ invocations' = invocations + 1
    /\ UNCHANGED <<phase, transcript, next_speaker_index, active, outbox, agents, threads>>

\* statement s of tool function t runs with outcome o; b says whether the text
\* read out of the message list contains the phrase
Call(t, s, o, b) ==
    /\ inv.tool = t
    /\ inv.pc = s
    /\ s \in StepNames
    /\ IF o = "ok"
       THEN /\ inv' = [inv EXCEPT
                        !.steps = Append(@, s),
                        !.pc = StepAfter(s),
                        !.agent = IF s = "create_agent" THEN invocations ELSE @,
                        !.thread = IF s = "create_thread" THEN invocations ELSE @,
                        !.result = IF StepAfter(s) = "done" THEN Answer ELSE @,
                        !.phrase = IF s = "extract" THEN b ELSE @]
            /\ agents' = CASE s = "create_agent" -> agents \cup {invocations}
                           [] s = "delete_agent" -> agents \ {inv.agent}
                           [] OTHER              -> agents
            /\ threads' = IF s = "create_thread" THEN threads \cup {invocations}
                          ELSE threads
       ELSE /\ b = FALSE
            /\ inv' = [inv EXCEPT
                        !.steps = Append(@, s),
                        !.pc = OnFailure(s, o).pc,
                        !.result = OnFailure(s, o).result,
                        !.failed_at = s,
                        !.exc = o]
            /\ UNCHANGED <<agents, threads>>
    /\ UNCHANGED <<phase, transcript, next_speaker_index, active, turn, outbox, invocations>>

\* the invocation is over; the calling agent takes its result (an exception is
\* turned into an error result by the caller) and, after its last tool call,
\* answers with the summary of the results
Return(t) ==
    /\ inv.tool = t
    /\ inv.pc = "done"
    /\ turn.pc = "tools"
    /\ inv' = [inv EXCEPT !.pc = "collected"]
    /\ LET p == turn.phrase \/ (inv.result = Answer /\ inv.phrase) IN
       IF turn.pending = <<>>
       THEN /\ outbox' = <<[source |-> CHOOSE a \in active : TRUE, phrase |-> p]>>
            /\ active' = {}
            /\ turn' = IdleTurn
       ELSE /\ turn' = [turn EXCEPT !.phrase = p]
            /\ UNCHANGED <<outbox, active>>
    /\ UNCHANGED <<phase, transcript, next_speaker_index, agents, threads, invocations>>

Tool(t) ==
    \/ Begin(t)
    \/ \E s \in StepNames, o \in Outcomes, b \in BOOLEAN : Call(t, s, o, b)
    \/ Return(t)

stock_price_trends_tool == Tool("stock_price_trends_tool")
news_analysis_tool == Tool("news_analysis_tool")
market_sentiment_tool == Tool("market_sentiment_tool")
analyst_reports_tool == Tool("analyst_reports_tool")
expert_opinions_tool == Tool("expert_opinions_tool")

(* --------------------------- assistant agents ------------------------- *)
\* the lists of tool calls a reply of agent a may hold
CallLists(a) ==
    LET C == [tool : ToolsOf(a), stock : Stocks] IN
    UNION {[1..n -> C] : n \in 1..MaxCalls}

\* the agent's model answers with text; b: the text contains the phrase
ReplyText(a, b) ==
    /\ a \in active
    /\ turn.pc = "model"
    /\ outbox' = <<[source |-> a, phrase |-> b]>>
    /\ active' = active \ {a}
    /\ turn' = IdleTurn
    /\ UNCHANGED <<phase, transcript, next_speaker_index, inv, agents, threads, invocations>>

\* the agent's model answers with tool calls
ReplyToolCalls(a, calls) ==
    /\ a \in active
    /\ turn.pc = "model"
    /\ invocations + Len(calls) <= MaxInvocations
    /\ turn' = [pc |-> "tools", pending |-> calls, phrase |-> FALSE]
    /\ UNCHANGED <<phase, transcript, next_speaker_index, active, outbox, inv, agents,
                   threads, invocations>>

AssistantAgent(a) ==
    \/ \E b \in BOOLEAN : ReplyText(a, b)
    \/ \E calls \in CallLists(a) : ReplyToolCalls(a, calls)

(* ------------------------ termination and team ------------------------ *)
text_termination(delta) ==
    \E i \in 1..Len(delta) : delta[i].phrase

max_message_termination_late(thread) ==
    Len(thread) > MaxMessages

max_message_termination_early(thread) ==
    Len(thread) >= MaxMessages - 1

max_message_termination(thread) ==
    Len(thread) >= MaxMessages

termination_and(delta, thread) ==
    text_termination(delta) /\ max_message_termination(thread)

termination(delta, thread) ==
    text_termination(delta) \/ max_message_termination(thread)

\* the participant who speaks at index i, and the index after it
select_speaker_stuck(i) ==
    [speaker |-> Participants[i + 1], next |-> i]

select_speaker(i) ==
    [speaker |-> Participants[i + 1], next |-> (i + 1) % Len(Participants)]

\* the manager takes the messages of delta into the thread, evaluates the stop
\* condition and, unless it holds, asks the next participant to speak
Manage(delta) ==
    LET thread == transcript \o delta IN
    /\ transcript' = thread
    /\ IF termination(delta, thread)
       THEN /\ phase' = "stopped"
            /\ UNCHANGED <<next_speaker_index, active, turn>>
       ELSE /\ phase' = "running"
            /\ active' = active \cup {select_speaker(next_speaker_index).speaker}
            /\ next_speaker_index' = select_speaker(next_speaker_index).next
            /\ turn' = [IdleTurn EXCEPT !.pc = "model"]

\* main: investment_team.run_stream(task=...)
main ==
    /\ phase = "init"
    /\ Manage(<<[source |-> TaskSource, phrase |-> FALSE]>>)
    /\ UNCHANGED <<outbox, inv, agents, threads, invocations>>

\* the team receives the response that ends a turn
investment_team ==
    /\ phase = "running"
    /\ outbox # <<>>
    /\ Manage(outbox)
    /\ outbox' = <<>>
    /\ UNCHANGED <<inv, agents, threads, invocations>>

(* --------------------------- specification ---------------------------- *)
Init ==
    /\ phase = "init"
    /\ transcript = <<>>
    /\ next_speaker_index = 0
    /\ active = {}
    /\ turn = IdleTurn
    /\ outbox = <<>>
    /\ inv = NoInv
    /\ agents = {}
    /\ threads = {}
    /\ invocations = 0

Next ==
    \/ main
    \/ \E a \in {Participants[i] : i \in 1..Len(Participants)} : AssistantAgent(a)
    \/ stock_price_trends_tool
    \/ news_analysis_tool
    \/ market_sentiment_tool
    \/ analyst_reports_tool
    \/ expert_opinions_tool
    \/ investment_team

Spec == Init /\ [][Next]_vars

\* every awaited call returns or raises: a step that can be taken is taken
LiveSpec == Spec /\ WF_vars(Next)

(* ------------------------------ properties ---------------------------- *)
Count(seq, x) == Cardinality({i \in DOMAIN seq : seq[i] = x})

Finished == inv.pc \in {"done", "collected"}

InProgress == inv.pc \in StepNames \cup {"done"}

\* the participant whose turn produces message n + 1 of the transcript
SpeakerAfter(n) == Participants[((n - 1) % Len(Participants)) + 1]

PhraseSeen == \E i \in DOMAIN transcript : transcript[i].phrase

SuccessOrder == <<"create_agent", "create_thread", "create_message",
                  "create_and_process_run", "list_messages", "delete_agent", "extract">>

ClaimedOrder == <<"create_agent", "create_thread", "create_message",
                  "create_and_process_run", "list_messages", "extract", "delete_agent">>

\* C1: in every finished tool invocation whose create_agent succeeded,
\* delete_agent has been called exactly once, also when a later call failed.
C1_DeletedExactlyOnce ==
    (Finished /\ inv.agent # 0) => Count(inv.steps, "delete_agent") = 1

\* C2: every run of the team terminates: the transcript never exceeds 15
\* messages, the chat is no longer running once it holds 15 messages or a
\* message with the phrase, and every run eventually stops.
C2_Terminates ==
    /\ [](Len(transcript) <= MaxMessages)
    /\ [](phase = "running" => Len(transcript) < MaxMessages /\ ~PhraseSeen)
    /\ <>(phase = "stopped")

C2_Witness ==
    /\ phase = "stopped"
    /\ Len(transcript) = MaxMessages
    /\ ~PhraseSeen

\* C3: turns are strictly round-robin and never overlap: the k-th response
\* comes from participant ((k-1) mod 4), at most one participant has a turn
\* in progress, it is the one the rotation names, a tool invocation in
\* progress belongs to its turn, and no turn is in progress while the
\* previous response is still waiting to be taken into the transcript.
C3_RoundRobin ==
    /\ Cardinality(active) <= 1
    /\ \A i \in 2..Len(transcript) : transcript[i].source = SpeakerAfter(i - 1)
    /\ \A a \in active : a = SpeakerAfter(Len(transcript))
    /\ active # {} => outbox = <<>>
    /\ InProgress => \E a \in active : inv.tool \in ToolsOf(a)
    /\ turn.pc # "idle" => active # {}

C3_Witness ==
    /\ Len(transcript) = 7
    /\ active = {"sentiment_agent"}
    /\ inv.tool = "expert_opinions_tool"
    /\ inv.pc = "list_messages"

\* C4: a tool invocation never raises to its caller: whatever call fails, the
\* invocation ends by returning the answer or one of the fixed error strings.
C4_NeverRaises ==
    Finished => inv.result \in {Answer, ErrMissing, ErrGeneric}

\* C5: a failed tool invocation returns the missing-information string when
\* the failure is a KeyError and the unexpected-issue string for every other
\* exception, whatever the tool, the stock name and the failing call.
C5_TwoFixedStrings ==
    (Finished /\ inv.exc # "none") =>
        inv.result = (IF inv.exc = "KeyError" THEN ErrMissing ELSE ErrGeneric)

\* C6: when a tool invocation returns on its success path, neither the agent
\* nor the thread it created still exists on the remote service.
C6_NothingLeftOnSuccess ==
    (Finished /\ inv.result = Answer) =>
        /\ inv.agent \notin agents
        /\ inv.thread \notin threads

\* C7 as stated: a successful invocation runs create agent, create thread,
\* post message, run, list messages, extract the answer, delete agent, and a
\* failure while extracting happens while the agent is not yet deleted.
C7_ExtractBeforeDelete ==
    /\ (Finished /\ inv.result = Answer) => inv.steps = ClaimedOrder
    /\ inv.failed_at = "extract" => Count(inv.steps, "delete_agent") = 0

\* C7 amended: a successful invocation runs create agent, create thread, post
\* message, run, list messages, delete agent, extract the answer; the answer
\* is read out of the fetched message list after the agent is deleted, so a
\* failure while extracting happens only after delete_agent has been called.
C7_DeleteBeforeExtract ==
    /\ (Finished /\ inv.result = Answer) => inv.steps = SuccessOrder
    /\ inv.failed_at = "extract" =>
           /\ Count(inv.steps, "delete_agent") = 1
           /\ inv.agent \notin agents
    /\ \A i \in DOMAIN inv.steps : \A j \in DOMAIN inv.steps :
           (inv.steps[i] = "list_messages" /\ inv.steps[j] = "delete_agent") => i < j

C7_Witness ==
    /\ inv.pc = "done"
    /\ inv.failed_at = "extract"
    /\ inv.tool = "news_analysis_tool"

C9_StopIsOr ==
    /\ phase = "stopped" <=> (PhraseSeen \/ Len(transcript) >= MaxMessages)
    /\ phase = "stopped" =>
           /\ active = {}
           /\ turn.pc = "idle"
           /\ ~InProgress
           /\ outbox = <<>>
           /\ ~ENABLED Next
    /\ (phase = "running" /\ outbox = <<>>) => active = {SpeakerAfter(Len(transcript))}

C9_Witness ==
    /\ phase = "stopped"
    /\ PhraseSeen
    /\ Len(transcript) = 5
    /\ invocations = MaxInvocations

\* C10 as stated: a run that stops with fewer than 15 messages ends on a
\* message of decision_agent that holds the phrase, after the three research
\* agents have spoken.
C10_OnlyDecisionAgentEnds ==
    (phase = "stopped" /\ Len(transcript) < MaxMessages) =>
        /\ transcript[Len(transcript)].phrase
        /\ transcript[Len(transcript)].source = "decision_agent"
        /\ Len(transcript) >= 5

\* C10 amended: a run that stops with fewer than 15 messages ends on a
\* message that holds the phrase, and it is the first such message; that
\* message comes from whichever participant had the turn, a research agent
\* included.
C10_PhraseEndsRun ==
    (phase = "stopped" /\ Len(transcript) < MaxMessages) =>
        /\ transcript[Len(transcript)].phrase
        /\ \A i \in 1..(Len(transcript) - 1) : ~transcript[i].phrase
        /\ transcript[Len(transcript)].source = SpeakerAfter(Len(transcript) - 1)

C10_Witness ==
    /\ phase = "stopped"
    /\ Len(transcript) = 3
    /\ transcript[3].phrase
    /\ transcript[3].source = "news_agent"

====
